---- MODULE Spec2Model ----
(***************************************************************************)
(* RandSet<T, S> (src/src/lib.rs): a hash set with O(1) random element     *)
(* access.  The set keeps a HashMap from each value to its position        *)
(* (values_to_index) beside a Vec of the values (items_vector).            *)
(*                                                                         *)
(* Positions are 0-based as in the source; a Vec is a TLA+ sequence, so    *)
(* the element at position i is v[i + 1].  A HashMap<T, usize> is a        *)
(* function whose domain is its key set.  An Option is a sequence of       *)
(* length at most one: None is << >>, Some(x) is << x >>.                  *)
(***************************************************************************)
EXTENDS Integers, Sequences, FiniteSets, TLC

\* The element type T is modelled by the values 1..MaxVal.
MaxVal == 3

Values == 1..MaxVal

\* from_iter is handed sequences of at most MaxLen values.
MaxLen == 4

VARIABLES
    values_to_index,    \* self.values_to_index : HashMap<T, usize>
    items_vector,       \* self.items_vector    : Vec<T>
    abstract_set,       \* the mathematical set run side by side with self
    last,               \* the last call on self: what, with what, its result
    last2,              \* the call before the last one
    first_inserted,     \* Some(the distinct values in the order of their first
                        \* insert) while no remove has succeeded since new or
                        \* clear, None afterwards
    consumed,           \* self was moved out by the consuming into_iter
    iter_input,         \* the sequence handed to from_iter
    panicked,           \* a call panicked; the program has stopped
    operands,           \* the two instances that eq compares
    removed,            \* per operand: a remove succeeded since new or clear
    eq_ret              \* Some(<<a == b, b == a>>) right after the
                        \* comparison, None once an operand changed

selfvars == <<values_to_index, items_vector, abstract_set, last, last2,
              first_inserted, consumed, iter_input>>

eqvars == <<operands, removed, eq_ret>>

vars == <<selfvars, panicked, eqvars>>

\* The two sides of ==.
Sides == {1, 2}

----------------------------------------------------------------------------
(* Option<T> *)

None == << >>

Some(x) == << x >>

(* std::collections::HashMap<T, usize> *)

HashMap_new == [k \in {} |-> 0]

contains_key(m, k) == k \in DOMAIN m

\* Fault: a miss answered with position 0 (unwrap_or_default on the lookup).
HashMap_get_or_default(m, k) == IF k \in DOMAIN m THEN Some(m[k]) ELSE Some(0)

HashMap_get(m, k) == IF k \in DOMAIN m THEN Some(m[k]) ELSE None

HashMap_insert(m, k, i) == [x \in (DOMAIN m) \cup {k} |-> IF x = k THEN i ELSE m[x]]

\* Fault: the key is left in the map.
HashMap_remove_noop(m, k) == m

HashMap_remove(m, k) == [x \in (DOMAIN m) \ {k} |-> m[x]]

(* std::vec::Vec<T> *)

Vec_new == << >>

Vec_at(v, i) == v[i + 1]

Vec_swap(v, a, b) == [v EXCEPT ![a + 1] = v[b + 1], ![b + 1] = v[a + 1]]

\* Fault: the last slot is not dropped.
Vec_pop_noop(v) == v

Vec_pop(v) == IF Len(v) = 0 THEN v ELSE SubSeq(v, 1, Len(v) - 1)

\* Fault: the value is put at the front instead of the end.
Vec_push_front(v, x) == << x >> \o v

Vec_push(v, x) == Append(v, x)

----------------------------------------------------------------------------
(* RandSet: every operation takes the set as the record                    *)
(* [values_to_index, items_vector] and, when it mutates, gives the new     *)
(* record back.                                                            *)

RandSet(m, v) == [values_to_index |-> m, items_vector |-> v]

new == RandSet(HashMap_new, Vec_new)

len(set) == Len(set.items_vector)

is_empty(set) == DOMAIN set.values_to_index = {}

contains(set, value) == contains_key(set.values_to_index, value)

get(set, value) ==
    IF Len(set.items_vector) = 0
    THEN None
    ELSE IF contains_key(set.values_to_index, value) THEN Some(value) ELSE None

\* random_index is the draw of rng.random_range(0..len).
get_rand(set, random_index) ==
    IF Len(set.items_vector) = 0
    THEN None
    ELSE Some(Vec_at(set.items_vector, random_index))

\* Fault: only the vector is cleared.
clear_vec_only(set) == RandSet(set.values_to_index, Vec_new)

\* Fault: only the map is cleared.
clear_map_only(set) == RandSet(HashMap_new, set.items_vector)

clear(set) == RandSet(HashMap_new, Vec_new)

\* Fault: the membership test is missing.
insert_no_check(set, value) ==
    [set |-> RandSet(HashMap_insert(set.values_to_index, value, Len(set.items_vector)),
                     Vec_push(set.items_vector, value)),
     ret |-> TRUE]

\* Fault: the position is taken after the push (one too large).
insert_index_after_push(set, value) ==
    IF contains_key(set.values_to_index, value)
    THEN [set |-> set, ret |-> FALSE]
    ELSE [set |-> RandSet(HashMap_insert(set.values_to_index, value, Len(set.items_vector) + 1),
                          Vec_push(set.items_vector, value)),
          ret |-> TRUE]

insert(set, value) ==
    IF contains_key(set.values_to_index, value)
    THEN [set |-> set, ret |-> FALSE]
    ELSE [set |-> RandSet(HashMap_insert(set.values_to_index, value, Len(set.items_vector)),
                          Vec_push(set.items_vector, value)),
          ret |-> TRUE]

\* Fault: the moved value's map entry is not updated.
swap_no_reindex(set, matching_index, last_index) ==
    RandSet(set.values_to_index, Vec_swap(set.items_vector, matching_index, last_index))

\* Fault: the swap branch is missing altogether.
swap_skipped(set, matching_index, last_index) == set

\* The swap branch of remove: swap, then point the map at the moved value.
swap_with_last(set, matching_index, last_index) ==
    LET swapped == Vec_swap(set.items_vector, matching_index, last_index)
        swapped_value == Vec_at(swapped, matching_index)
    IN  RandSet(HashMap_insert(set.values_to_index, swapped_value, matching_index), swapped)

\* Fault: the element is taken out by shifting the later ones down
\* (Vec::remove) and re-numbering them, instead of swap and pop.
remove_shifting(set, value) ==
    LET found == HashMap_get(set.values_to_index, value)
        m == set.values_to_index
        v == set.items_vector
    IN  IF found = None
        THEN [set |-> set, ret |-> FALSE, panic |-> FALSE,
              matching_index |-> None, last_index |-> None]
        ELSE [set |-> RandSet([k \in (DOMAIN m) \ {value} |->
                                  IF m[k] > found[1] THEN m[k] - 1 ELSE m[k]],
                              SubSeq(v, 1, found[1]) \o SubSeq(v, found[1] + 2, Len(v))),
              ret |-> TRUE, panic |-> FALSE,
              matching_index |-> found, last_index |-> None]

\* Fault: `len() - 1` is computed before the lookup, so it is computed on a
\* miss too, and on an empty set it overflows (a panic in a checked build).
remove_sub_first(set, value) ==
    LET length == Len(set.items_vector)
        last_index == length - 1
        found == HashMap_get(set.values_to_index, value)
    IN  IF length = 0
        THEN [set |-> set, ret |-> FALSE, panic |-> TRUE,
              matching_index |-> None, last_index |-> Some(last_index)]
        ELSE IF found = None
        THEN [set |-> set, ret |-> FALSE, panic |-> FALSE,
              matching_index |-> None, last_index |-> Some(last_index)]
        ELSE LET moved == IF found[1] # last_index
                          THEN swap_with_last(set, found[1], last_index)
                          ELSE set
             IN  [set |-> RandSet(HashMap_remove(moved.values_to_index, value),
                                  Vec_pop(moved.items_vector)),
                  ret |-> TRUE, panic |-> FALSE,
                  matching_index |-> found, last_index |-> Some(last_index)]

\* remove: panic is TRUE when the call panics before it changes anything:
\* with an empty vector `len() - 1` overflows (a panic in a checked build, and
\* usize::MAX in an unchecked one, where the swap then panics on the index),
\* and Vec::swap panics on a position that is not below the length.
\* matching_index and last_index are the values the call computed, None when
\* it returned before computing them; last_index is the mathematical
\* len - 1, so -1 stands for the overflow.
remove(set, value) ==
    LET found == HashMap_get(set.values_to_index, value)
    IN  IF found = None
        THEN [set |-> set, ret |-> FALSE, panic |-> FALSE,
              matching_index |-> None, last_index |-> None]
        ELSE LET matching_index == found[1]
                 length == Len(set.items_vector)
                 last_index == length - 1
             IN  IF length = 0 \/ (matching_index # last_index /\ matching_index >= length)
                 THEN [set |-> set, ret |-> FALSE, panic |-> TRUE,
                       matching_index |-> found, last_index |-> Some(last_index)]
                 ELSE LET moved == IF matching_index # last_index
                                   THEN swap_with_last(set, matching_index, last_index)
                                   ELSE set
                      IN  [set |-> RandSet(HashMap_remove(moved.values_to_index, value),
                                           Vec_pop(moved.items_vector)),
                           ret |-> TRUE, panic |-> FALSE,
                           matching_index |-> found, last_index |-> Some(last_index)]

\* Fault: iteration over the keys of the map (here in ascending order)
\* instead of the vector.
RECURSIVE ascending(_)
ascending(keys) ==
    IF keys = {}
    THEN << >>
    ELSE LET least == CHOOSE k \in keys : \A x \in keys : k <= x
         IN  << least >> \o ascending(keys \ {least})

iter_over_keys(set) == ascending(DOMAIN set.values_to_index)

\* RandSet::iter(&self): the items the slice iterator yields, in order.
iter(set) == set.items_vector

\* IntoIterator for &RandSet: the same slice iterator.
into_iter_ref(set) == set.items_vector

\* IntoIterator for RandSet: the vector's own iterator; the set is moved.
into_iter(set) == set.items_vector

\* Fault: the lengths are not compared.
eq_no_len_check(self, rhs) ==
    \A i \in 1..Len(self.items_vector) : contains(rhs, self.items_vector[i])

\* PartialEq::eq(&self, other)
eq(self, rhs) ==
    IF len(self) # len(rhs)
    THEN FALSE
    ELSE \A i \in 1..Len(self.items_vector) : contains(rhs, self.items_vector[i])

\* RandSet::with_hasher(hash_builder)
with_hasher == RandSet(HashMap_new, Vec_new)

\* The loop of from_iter: insert each item of the iterator in turn, the
\* returned bool dropped.
RECURSIVE from_iter_loop(_, _)
from_iter_loop(set, items) ==
    IF items = << >>
    THEN set
    ELSE from_iter_loop(insert(set, Head(items)).set, Tail(items))

\* FromIterator::from_iter(iter)
from_iter(input) == from_iter_loop(with_hasher, input)

----------------------------------------------------------------------------
(* The program: calls on one instance, self, one at a time                 *)

Self == RandSet(values_to_index, items_vector)

Unit == "()"

\* The record of a call on self: pre is self as it was before the call,
\* expect is what a mathematical set returns for the same call.
Call(op, arg, ret, expect) ==
    [op |-> op, arg |-> arg, ret |-> ret, expect |-> expect, pre |-> Self]

Init ==
    /\ values_to_index = new.values_to_index
    /\ items_vector = new.items_vector
    /\ abstract_set = {}
    /\ last = [op |-> "new", arg |-> 0, ret |-> Unit, expect |-> Unit, pre |-> new]
    /\ last2 = [op |-> "new", arg |-> 0, ret |-> Unit, expect |-> Unit, pre |-> new]
    /\ first_inserted = Some(<< >>)
    /\ consumed = FALSE
    /\ iter_input = << >>
    /\ panicked = FALSE
    /\ operands = [side \in Sides |-> new]
    /\ removed = [side \in Sides |-> FALSE]
    /\ eq_ret = None

Insert(value) ==
    /\ ~panicked /\ ~consumed
    /\ LET r == insert(Self, value)
       IN  /\ values_to_index' = r.set.values_to_index
           /\ items_vector' = r.set.items_vector
           /\ last' = Call("insert", value, r.ret, value \notin abstract_set)
    /\ abstract_set' = abstract_set \cup {value}
    /\ first_inserted' = IF first_inserted # None /\ value \notin abstract_set
                         THEN Some(Append(first_inserted[1], value))
                         ELSE first_inserted
    /\ last2' = last
    /\ UNCHANGED <<panicked, eqvars, consumed, iter_input>>

Remove(value) ==
    /\ ~panicked /\ ~consumed
    /\ LET r == remove(Self, value)
       IN  /\ values_to_index' = r.set.values_to_index
           /\ items_vector' = r.set.items_vector
           /\ panicked' = r.panic
           /\ last' = Call("remove", value, r.ret, value \in abstract_set)
    /\ abstract_set' = abstract_set \ {value}
    /\ first_inserted' = IF value \in abstract_set THEN None ELSE first_inserted
    /\ last2' = last
    /\ UNCHANGED <<eqvars, consumed, iter_input>>

Clear ==
    /\ ~panicked /\ ~consumed
    /\ LET s == clear(Self)
       IN  /\ values_to_index' = s.values_to_index
           /\ items_vector' = s.items_vector
    /\ last' = Call("clear", 0, Unit, Unit)
    /\ abstract_set' = {}
    /\ first_inserted' = Some(<< >>)
    /\ last2' = last
    /\ UNCHANGED <<panicked, eqvars, consumed, iter_input>>

Contains(value) ==
    /\ ~panicked /\ ~consumed
    /\ last' = Call("contains", value, contains(Self, value), value \in abstract_set)
    /\ last2' = last
    /\ UNCHANGED <<values_to_index, items_vector, abstract_set, first_inserted,
                 panicked, eqvars, consumed, iter_input>>

LenCall ==
    /\ ~panicked /\ ~consumed
    /\ last' = Call("len", 0, len(Self), Cardinality(abstract_set))
    /\ last2' = last
    /\ UNCHANGED <<values_to_index, items_vector, abstract_set, first_inserted,
                 panicked, eqvars, consumed, iter_input>>

IsEmpty ==
    /\ ~panicked /\ ~consumed
    /\ last' = Call("is_empty", 0, is_empty(Self), abstract_set = {})
    /\ last2' = last
    /\ UNCHANGED <<values_to_index, items_vector, abstract_set, first_inserted,
                 panicked, eqvars, consumed, iter_input>>

Get(value) ==
    /\ ~panicked /\ ~consumed
    /\ last' = Call("get", value, get(Self, value),
                    IF value \in abstract_set THEN Some(value) ELSE None)
    /\ last2' = last
    /\ UNCHANGED <<values_to_index, items_vector, abstract_set, first_inserted,
                 panicked, eqvars, consumed, iter_input>>

\* Fault: the drawn element is taken out of the set.
GetRandTake ==
    /\ ~panicked /\ ~consumed
    /\ \E random_index \in (IF Len(items_vector) = 0 THEN {0} ELSE 0..(Len(items_vector) - 1)) :
           LET drawn == get_rand(Self, random_index)
               after == IF drawn = None THEN Self ELSE remove(Self, drawn[1]).set
           IN  /\ last' = Call("get_rand", random_index, drawn, Unit)
               /\ values_to_index' = after.values_to_index
               /\ items_vector' = after.items_vector
    /\ last2' = last
    /\ UNCHANGED <<abstract_set, first_inserted, panicked, eqvars, consumed, iter_input>>

\* The draw is any index of 0..len; an empty set returns before drawing.
GetRand ==
    /\ ~panicked /\ ~consumed
    /\ \E random_index \in (IF Len(items_vector) = 0 THEN {0} ELSE 0..(Len(items_vector) - 1)) :
           last' = Call("get_rand", random_index, get_rand(Self, random_index), Unit)
    /\ last2' = last
    /\ UNCHANGED <<values_to_index, items_vector, abstract_set, first_inserted,
                 panicked, eqvars, consumed, iter_input>>

Iter ==
    /\ ~panicked /\ ~consumed
    /\ last' = Call("iter", 0, iter(Self), Unit)
    /\ last2' = last
    /\ UNCHANGED <<values_to_index, items_vector, abstract_set, first_inserted,
                 panicked, eqvars, consumed, iter_input>>

\* for x in &set
IntoIterRef ==
    /\ ~panicked /\ ~consumed
    /\ last' = Call("into_iter_ref", 0, into_iter_ref(Self), Unit)
    /\ last2' = last
    /\ UNCHANGED <<values_to_index, items_vector, abstract_set, first_inserted,
                 panicked, eqvars, consumed, iter_input>>

\* for x in set: self is moved into the iterator and no call can follow.
IntoIter ==
    /\ ~panicked /\ ~consumed
    /\ last' = Call("into_iter", 0, into_iter(Self), Unit)
    /\ last2' = last
    /\ consumed' = TRUE
    /\ UNCHANGED <<values_to_index, items_vector, abstract_set, first_inserted,
                 panicked, eqvars, iter_input>>

Next ==
    \/ \E value \in Values : Insert(value)
    \/ \E value \in Values : Remove(value)
    \/ Clear
    \/ \E value \in Values : Contains(value)
    \/ LenCall
    \/ IsEmpty
    \/ \E value \in Values : Get(value)
    \/ GetRand
    \/ Iter
    \/ IntoIterRef
    \/ IntoIter

Spec == Init /\ [][Next]_vars

----------------------------------------------------------------------------
(* Equality: two instances, each built by its own inserts, removes and     *)
(* clears, and compared in both argument orders.                           *)

OperandInsert(side, value) ==
    /\ ~panicked
    /\ operands' = [operands EXCEPT ![side] = insert(operands[side], value).set]
    /\ eq_ret' = None
    /\ UNCHANGED <<selfvars, removed, panicked>>

OperandRemove(side, value) ==
    /\ ~panicked
    /\ LET r == remove(operands[side], value)
       IN  /\ operands' = [operands EXCEPT ![side] = r.set]
           /\ removed' = [removed EXCEPT ![side] = removed[side] \/ r.ret]
           /\ panicked' = r.panic
    /\ eq_ret' = None
    /\ UNCHANGED selfvars

OperandClear(side) ==
    /\ ~panicked
    /\ operands' = [operands EXCEPT ![side] = clear(operands[side])]
    /\ removed' = [removed EXCEPT ![side] = FALSE]
    /\ eq_ret' = None
    /\ UNCHANGED <<selfvars, panicked>>

\* operands[1] == operands[2] and operands[2] == operands[1], both recorded.
Eq ==
    /\ ~panicked
    /\ eq_ret' = Some(<< eq(operands[1], operands[2]), eq(operands[2], operands[1]) >>)
    /\ UNCHANGED <<selfvars, operands, removed, panicked>>

NextEq ==
    \/ \E side \in Sides, value \in Values : OperandInsert(side, value)
    \/ \E side \in Sides, value \in Values : OperandRemove(side, value)
    \/ \E side \in Sides : OperandClear(side)
    \/ Eq

SpecEq == Init /\ [][NextEq]_vars

----------------------------------------------------------------------------
(* Construction from a sequence: the input is any sequence of at most      *)
(* MaxLen values, and the one call builds self from it.                    *)

Inputs == UNION {[1..n -> Values] : n \in 0..MaxLen}

InitFromIter ==
    /\ iter_input \in Inputs
    /\ values_to_index = new.values_to_index
    /\ items_vector = new.items_vector
    /\ abstract_set = {}
    /\ last = [op |-> "new", arg |-> 0, ret |-> Unit, expect |-> Unit, pre |-> new]
    /\ last2 = [op |-> "new", arg |-> 0, ret |-> Unit, expect |-> Unit, pre |-> new]
    /\ first_inserted = Some(<< >>)
    /\ consumed = FALSE
    /\ panicked = FALSE
    /\ operands = [side \in Sides |-> new]
    /\ removed = [side \in Sides |-> FALSE]
    /\ eq_ret = None

FromIter ==
    /\ ~panicked /\ ~consumed
    /\ last.op = "new"
    /\ LET set == from_iter(iter_input)
       IN  /\ values_to_index' = set.values_to_index
           /\ items_vector' = set.items_vector
    /\ last' = Call("from_iter", iter_input, Unit, Unit)
    /\ last2' = last
    /\ abstract_set' = {iter_input[i] : i \in 1..Len(iter_input)}
    /\ UNCHANGED <<first_inserted, consumed, iter_input, panicked, eqvars>>

NextFromIter == FromIter

SpecFromIter == InitFromIter /\ [][NextFromIter]_vars

----------------------------------------------------------------------------
(* Properties                                                              *)

\* The values held by the dense store.
Held(set) == {set.items_vector[i] : i \in 1..Len(set.items_vector)}

\* Invariant I1 of a set: the map and the vector have the same number of
\* entries, every map entry (k, i) has k at position i, and every position i
\* holds a value that the map sends back to i.
I1(set) ==
    LET m == set.values_to_index
        v == set.items_vector
    IN  /\ Cardinality(DOMAIN m) = Len(v)
        /\ \A k \in DOMAIN m : m[k] \in 0..(Len(v) - 1) /\ Vec_at(v, m[k]) = k
        /\ \A i \in 0..(Len(v) - 1) : Vec_at(v, i) \in DOMAIN m /\ m[Vec_at(v, i)] = i

\* C1: I1 (the bijection between the index map and the dense store) holds in
\* every state reachable from an empty RandSet by insert, remove and clear.
C1_Bijection == I1(Self)

\* C1 case: a remove that moved the last element into the hole left at the
\* front of a three-element store.
C1_Witness ==
    /\ last.op = "remove" /\ last.ret = TRUE
    /\ len(last.pre) = 3
    /\ last.pre.items_vector[1] = last.arg

\* C2: every insert, remove, clear, contains and len call returns what the
\* same call returns on a mathematical set run side by side, and the values in
\* the dense store are always exactly that set.
C2_RegularSet ==
    /\ last.op \in {"insert", "remove", "clear", "contains", "len"} => last.ret = last.expect
    /\ Held(Self) = abstract_set

\* C2 case: len() answers 2 right after a successful remove.
C2_Witness ==
    /\ last.op = "len" /\ last.ret = 2
    /\ last2.op = "remove" /\ last2.ret = TRUE

\* C3: remove(v) returns true iff contains(v) held just before the call; when
\* it returns true, contains(v) is false afterwards and len() is one less.
C3_RemoveCorrect ==
    last.op = "remove" =>
        /\ last.ret = contains(last.pre, last.arg)
        /\ last.ret = TRUE =>
              /\ ~contains(Self, last.arg)
              /\ len(Self) = len(last.pre) - 1

\* C3 case: a successful remove that leaves other elements behind.
C3_Witness ==
    /\ last.op = "remove" /\ last.ret = TRUE
    /\ contains(last.pre, last.arg)
    /\ len(Self) >= 1

\* C4: insert(v) of a value not contained returns true, puts v at the position
\* equal to the old length, records that position in the map, grows len() by
\* one and leaves every earlier element at its position; also on re-insertion.
C4_InsertAbsent ==
    (last.op = "insert" /\ ~contains(last.pre, last.arg)) =>
        LET n == len(last.pre) IN
        /\ last.ret = TRUE
        /\ len(Self) = n + 1
        /\ Vec_at(items_vector, n) = last.arg
        /\ last.arg \in DOMAIN values_to_index
        /\ values_to_index[last.arg] = n
        /\ \A i \in 0..(n - 1) : Vec_at(items_vector, i) = Vec_at(last.pre.items_vector, i)
        /\ \A k \in DOMAIN last.pre.values_to_index :
              k \in DOMAIN values_to_index /\ values_to_index[k] = last.pre.values_to_index[k]

\* C4 case: a value removed by the previous call is inserted again beside
\* other elements.
C4_Witness ==
    /\ last.op = "insert" /\ last.ret = TRUE
    /\ last2.op = "remove" /\ last2.ret = TRUE /\ last2.arg = last.arg
    /\ len(Self) >= 2

\* C5: insert(v) of a contained value returns false and changes neither the
\* map nor the store; two inserts of the same value in a row grow the length
\* by one (when the first one added it), not two, and the second returns false.
C5_InsertPresent ==
    /\ (last.op = "insert" /\ contains(last.pre, last.arg)) =>
          /\ last.ret = FALSE
          /\ Self = last.pre
    /\ (last.op = "insert" /\ last2.op = "insert" /\ last.arg = last2.arg) =>
          /\ last.ret = FALSE
          /\ len(Self) = len(last2.pre) + (IF last2.ret = TRUE THEN 1 ELSE 0)

\* C5 case: the same absent value inserted twice in a row.
C5_Witness ==
    /\ last.op = "insert" /\ last2.op = "insert" /\ last.arg = last2.arg
    /\ last2.ret = TRUE /\ last.ret = FALSE
    /\ len(Self) >= 2

\* C6: remove(v) of a value not contained, also on an empty set, returns
\* false without panicking and leaves the map and the store as they were.
C6_RemoveAbsent ==
    (last.op = "remove" /\ ~contains(last.pre, last.arg)) =>
        /\ last.ret = FALSE
        /\ ~panicked
        /\ Self = last.pre

\* C6 case: a remove of an absent value from a set of two or more.
C6_Witness ==
    /\ last.op = "remove" /\ last.ret = FALSE
    /\ ~contains(last.pre, last.arg)
    /\ len(last.pre) >= 2

\* C7: insert(v) of a value not contained followed at once by remove(v) gives
\* back the exact prior state: the same map and store, hence the same
\* cardinality and membership.
C7_RoundTrip ==
    (/\ last.op = "remove" /\ last2.op = "insert"
     /\ last.arg = last2.arg
     /\ ~contains(last2.pre, last2.arg)) =>
        /\ last.ret = TRUE
        /\ Self = last2.pre
        /\ len(Self) = len(last2.pre)
        /\ DOMAIN values_to_index = DOMAIN last2.pre.values_to_index

\* C7 case: the round trip on a set that already holds two elements.
C7_Witness ==
    /\ last.op = "remove" /\ last2.op = "insert"
    /\ last.arg = last2.arg
    /\ ~contains(last2.pre, last2.arg)
    /\ len(last2.pre) >= 2

\* C8: get_rand() returns nothing iff the set is empty; otherwise, whatever
\* index is drawn, it returns a contained element; with one element left it
\* returns that element.
C8_SamplingValid ==
    last.op = "get_rand" =>
        /\ (last.ret = None) <=> is_empty(Self)
        /\ last.ret # None => contains(Self, last.ret[1])
        /\ \A x \in Values : abstract_set = {x} => last.ret = Some(x)

\* C8 case: get_rand() after two inserts and the removal of the first value.
C8_Witness ==
    /\ last.op = "get_rand" /\ last.ret # None
    /\ last2.op = "remove" /\ last2.ret = TRUE
    /\ len(last2.pre) = 2 /\ last2.pre.items_vector[1] = last2.arg

\* C9: a == b and b == a are both true iff the two instances a and b
\* hold the same set of values, whatever their positional order.
C9_EqIsSetEquality ==
    eq_ret # None =>
        eq_ret = Some(<< Held(operands[1]) = Held(operands[2]),
                         Held(operands[2]) = Held(operands[1]) >>)

\* C9 case: the instances compare equal in both orders, hold two or more
\* values in different positional orders, and each has had a successful
\* remove.
C9_Witness ==
    /\ eq_ret = Some(<< TRUE, TRUE >>)
    /\ len(operands[1]) >= 2
    /\ operands[1].items_vector # operands[2].items_vector
    /\ removed[1] /\ removed[2]

\* C10: clear() leaves the state of a fresh instance: empty map and store,
\* len() 0, is_empty() true, nothing contained; the next insert lands at
\* position 0.
C10_Clear ==
    /\ last.op = "clear" =>
          /\ Self = new
          /\ len(Self) = 0
          /\ is_empty(Self)
          /\ \A v \in Values : ~contains(Self, v)
    /\ (last.op = "insert" /\ last2.op = "clear") =>
          /\ last.ret = TRUE
          /\ items_vector = << last.arg >>
          /\ last.arg \in DOMAIN values_to_index
          /\ values_to_index[last.arg] = 0

\* C10 case: an insert right after the clear of a set of two or more.
C10_Witness ==
    /\ last.op = "insert" /\ last2.op = "clear"
    /\ len(last2.pre) >= 2

\* C11: is_empty() is true iff len() is 0, and len() is the number of
\* elements in the dense store; the recorded calls return exactly that.
C11_LenAndIsEmpty ==
    /\ is_empty(Self) <=> (len(Self) = 0)
    /\ len(Self) = Cardinality(Held(Self))
    /\ last.op = "len" => last.ret = Cardinality(Held(Self))
    /\ last.op = "is_empty" => (last.ret <=> Held(Self) = {})

\* C11 case: is_empty() answers true on a set emptied by a remove.
C11_Witness ==
    /\ last.op = "is_empty" /\ last.ret = TRUE
    /\ last2.op = "remove" /\ last2.ret = TRUE

\* The position of the first occurrence of x in a sequence that holds it.
FirstIndex(input, x) ==
    CHOOSE i \in 1..Len(input) :
        input[i] = x /\ \A j \in 1..(i - 1) : input[j] # x

\* C12: a RandSet built from a sequence holds each distinct input value once,
\* in the order of the first occurrences (what inserting the values one by
\* one into an empty set gives): its length is the number of distinct input
\* values, every input value is contained, and I1 holds.
C12_FromIter ==
    last.op = "from_iter" =>
        LET input == last.arg
            distinct == {input[i] : i \in 1..Len(input)}
        IN  /\ I1(Self)
            /\ len(Self) = Cardinality(distinct)
            /\ \A i \in 1..Len(input) : contains(Self, input[i])
            /\ Held(Self) = distinct
            /\ \A a, b \in 1..Len(items_vector) :
                  a < b => FirstIndex(input, items_vector[a]) < FirstIndex(input, items_vector[b])

\* C12 case: an input whose first value comes again after another value.
C12_Witness ==
    /\ last.op = "from_iter"
    /\ Len(last.arg) >= 3
    /\ last.arg[1] = last.arg[3] /\ last.arg[1] # last.arg[2]
    /\ len(Self) = 2

\* C13: get(v) returns a stored value equal to v if v is contained and
\* nothing otherwise, so get(v) is present iff contains(v).
C13_Get ==
    last.op = "get" =>
        /\ last.ret = (IF contains(last.pre, last.arg) THEN Some(last.arg) ELSE None)
        /\ (last.ret # None) <=> contains(Self, last.arg)
        /\ last.ret # None => last.ret[1] \in Held(Self)
        /\ last.ret = last.expect

\* C13 case: get finds a value that a remove moved to another position.
C13_Witness ==
    /\ last.op = "get" /\ last.ret = Some(last.arg)
    /\ last2.op = "remove" /\ last2.ret = TRUE
    /\ last.pre.values_to_index[last.arg] # last2.pre.values_to_index[last.arg]

\* C14: contains, get, get_rand, len, is_empty and by-reference iteration
\* leave the index map and the dense store as they were; two get_rand calls in
\* a row both see the set as it was before the first.
C14_QueriesPure ==
    /\ last.op \in {"contains", "get", "get_rand", "len", "is_empty", "iter", "into_iter_ref"} =>
          /\ values_to_index = last.pre.values_to_index
          /\ items_vector = last.pre.items_vector
    /\ (last.op = "get_rand" /\ last2.op = "get_rand") =>
          /\ Self = last2.pre
          /\ last.ret # None => last.ret[1] \in Held(last2.pre)

\* C14 case: two get_rand calls in a row on a set of two or more, drawing the
\* same index twice.
C14_Witness ==
    /\ last.op = "get_rand" /\ last2.op = "get_rand"
    /\ last.arg = last2.arg /\ last.ret = last2.ret
    /\ len(Self) >= 2

\* C16: a successful remove(v), with v at position p and last = len - 1,
\* leaves the old store with the old last element at p (when p # last) and the
\* last slot dropped: every other survivor keeps its position and its map
\* entry, the moved element's map entry is p, and when p = last nothing moves.
C16_SwapAndPop ==
    (last.op = "remove" /\ last.ret = TRUE) =>
        LET old == last.pre.items_vector
            old_map == last.pre.values_to_index
            n == Len(old)
            p == old_map[last.arg]
            moved_value == old[n]
        IN  /\ Len(items_vector) = n - 1
            /\ \A i \in 0..(n - 2) :
                  Vec_at(items_vector, i) = (IF i = p THEN moved_value ELSE Vec_at(old, i))
            /\ DOMAIN values_to_index = (DOMAIN old_map) \ {last.arg}
            /\ \A k \in DOMAIN values_to_index :
                  values_to_index[k] = (IF k = moved_value THEN p ELSE old_map[k])
            /\ p = n - 1 => items_vector = SubSeq(old, 1, n - 1)

\* C16 case: the first of three elements is removed, the last one takes its
\* place and the middle one stays.
C16_Witness ==
    /\ last.op = "remove" /\ last.ret = TRUE
    /\ Len(last.pre.items_vector) = 3
    /\ last.pre.items_vector[1] = last.arg
    /\ items_vector = << last.pre.items_vector[3], last.pre.items_vector[2] >>

\* C17: in every reachable state no remove(v) computes out of range: it
\* evaluates len - 1 only after the lookup hit, then the length is at least 1,
\* and the positions p and last it uses are both below the length; no call
\* has panicked.
C17_RemoveInRange ==
    /\ ~panicked
    /\ \A v \in Values :
          LET r == remove(Self, v)
              n == Len(items_vector)
          IN  /\ ~r.panic
              /\ ~contains(Self, v) => (r.last_index = None /\ r.matching_index = None)
              /\ r.last_index # None =>
                    /\ contains(Self, v)
                    /\ n >= 1
                    /\ r.last_index[1] \in 0..(n - 1)
                    /\ r.matching_index # None
                    /\ r.matching_index[1] \in 0..(n - 1)

\* C17 case: remove has been called on the empty set, where len - 1 would
\* overflow.
C17_Witness ==
    /\ last.op = "remove" /\ last.ret = FALSE
    /\ last.pre = new
    /\ ~panicked

\* C18: iteration, by reference or consuming, yields the contained values,
\* each exactly once, len() items in all, in the positional order of the dense
\* store; the consuming iteration yields the order the by-reference one did.
C18_Iteration ==
    /\ last.op \in {"iter", "into_iter_ref", "into_iter"} =>
          LET out == last.ret
          IN  /\ Len(out) = len(last.pre)
              /\ \A i, j \in 1..Len(out) : out[i] = out[j] => i = j
              /\ {out[i] : i \in 1..Len(out)} = {v \in Values : contains(last.pre, v)}
              /\ \A i \in 1..Len(out) :
                    /\ out[i] = Vec_at(last.pre.items_vector, i - 1)
                    /\ last.pre.values_to_index[out[i]] = i - 1
    /\ (last.op = "into_iter" /\ last2.op \in {"iter", "into_iter_ref"}) =>
          last.ret = last2.ret

\* C18 case: a consuming iteration right after a by-reference one, over two
\* or more values whose order a remove has changed from ascending.
C18_Witness ==
    /\ last.op = "into_iter" /\ last2.op = "iter"
    /\ Len(last.ret) >= 2
    /\ last.ret[1] > last.ret[2]
    /\ first_inserted = None

\* The elements of a sequence that lie in a set, in the sequence's order.
Restrict(seq, keep) ==
    LET Kept(x) == x \in keep
    IN  SelectSeq(seq, Kept)

\* The last call changed the relative order of the elements that survived it.
OrderChanged ==
    LET survivors == Held(last.pre) \cap Held(Self)
    IN  Restrict(last.pre.items_vector, survivors) # Restrict(items_vector, survivors)

\* C19: while no remove has succeeded since the set was new or cleared, the
\* dense store is the distinct values in the order of their first insert; and
\* only a successful remove of an element that is not at the last position
\* changes the relative order of the survivors.
C19_InsertionOrder ==
    /\ first_inserted # None => items_vector = first_inserted[1]
    /\ OrderChanged =>
          /\ last.op = "remove" /\ last.ret = TRUE
          /\ last.pre.values_to_index[last.arg] # len(last.pre) - 1

\* C19 case: a remove of the first of three values, inserted in order just
\* before, changes the order of the other two.
C19_Witness ==
    /\ OrderChanged
    /\ last.op = "remove" /\ last.ret = TRUE
    /\ last2.op = "insert" /\ last2.ret = TRUE
    /\ first_inserted = None

====
